---- MODULE Spec2Model ----
(***************************************************************************)
(* Model of cache-test.cpp: a pointer-chasing latency probe.               *)
(*                                                                         *)
(* Three specifications share one set of variables.                        *)
(*                                                                         *)
(*   Spec     main() over the real sweep list `sizes` (2^10 .. 2^28        *)
(*            bytes) with the real arithmetic.  A buffer of 128 .. 2^25    *)
(*            cells cannot be enumerated, so here the buffer is tracked    *)
(*            by its length, its owner iteration and its build stage.      *)
(*   SpecBuf  one iteration of main's loop body (lines 110-131) with the   *)
(*            buffer's contents modelled cell by cell, for byte sizes      *)
(*            that give 1 .. MaxElems cells and a hop base of ModelHops.   *)
(*   SpecHop  hop_read (lines 46-57) called twice in a row on a buffer     *)
(*            drawn from all permutations of 1 .. MaxElems cells, with     *)
(*            every hop count 0 .. MaxHops.                                *)
(*                                                                         *)
(* The model is of the x86-64 build: size_t is 64 bits wide, so            *)
(* sizeof(size_t) = 8 and no value of the program comes near 2^64.         *)
(* The program is sequential, so each specification is weakly fair on its  *)
(* next-state relation: a statement that can run does run.                 *)
(***************************************************************************)
EXTENDS Integers, Sequences, FiniteSets, TLC

VARIABLES
  pc,        \* position of the program
  sz,        \* main: sz, the byte size of the current sweep entry
  elems,     \* main: elems
  num_hops,  \* main / hop_read: num_hops
  \* ---- Spec: main over the real sweep list
  si,        \* index of the current entry of sizes (range-for position)
  ip,        \* index of the next statement of the loop body
  buf,       \* the iteration's vector: [len, owner, stage]
  call,      \* arguments of the last hop_read call: [len, owner, stage, hops]
  taken,     \* whether `if (elems > num_hops)` was taken in this iteration
  trace,     \* statements executed so far in this iteration, in order
  out,       \* lines written to std::cout
  status,    \* how the process ended: "running", "0", "SIGABRT"
  \* ---- SpecBuf / SpecHop: buffer contents and hop_read's frame
  items,     \* the index buffer, a function on 0 .. elems-1
  i,         \* loop counter (main's fill loop, std::shuffle, hop_read)
  next,      \* hop_read: next
  result,    \* value returned by the last hop_read call
  nreads,    \* number of reads items[next] made by the current call
  visited,   \* set of cells read by the current call
  oob,       \* whether a read used an index outside the buffer
  items0,    \* contents of the buffer when hop_read was entered
  result1,   \* value returned by the first of two calls
  calls      \* number of hop_read calls started

sweepVars == <<si, ip, buf, call, taken, trace, out, status>>
bufVars   == <<items, i, next, result, nreads, visited, oob, items0, result1, calls>>
vars      == <<pc, sz, elems, num_hops, sweepVars, bufVars>>

----------------------------------------------------------------------------
(* Bounds of the model *)

MaxElems == 4
MaxHops == 5
ModelHops == 3

----------------------------------------------------------------------------
(* Program constants and pure computations *)

ElemWidth == 8

BaseHops == 100000000

Shl(a, k) == a * 2^k

\* mutant of sizes: 1 << 15 pasted twice, 1 << 16 lost
sizesRepeated ==
  << Shl(1, 10), Shl(1, 11), Shl(1, 12), Shl(1, 13), Shl(1, 14),
     Shl(1, 15), Shl(1, 15), Shl(1, 17), Shl(1, 18), Shl(1, 19),
     Shl(1, 20), Shl(1, 21), Shl(1, 22), Shl(1, 23), Shl(1, 24),
     Shl(1, 25), Shl(1, 26), Shl(1, 27), Shl(1, 28) >>

sizes ==
  << Shl(1, 10), Shl(1, 11), Shl(1, 12), Shl(1, 13), Shl(1, 14),
     Shl(1, 15), Shl(1, 16), Shl(1, 17), Shl(1, 18), Shl(1, 19),
     Shl(1, 20), Shl(1, 21), Shl(1, 22), Shl(1, 23), Shl(1, 24),
     Shl(1, 25), Shl(1, 26), Shl(1, 27), Shl(1, 28) >>

\* mutant of ElemCount: the division rounds from s - 1
ElemCountOffByOne(s) == (s - 1) \div ElemWidth

\* mutant of ElemCount: the element width is not accounted for
ElemCountNoWidth(s) == s

ElemCount(s) == s \div ElemWidth

HopBranch(base, n) == n > base

\* mutant of NumHops: the comparison is reversed, giving the minimum
NumHopsMin(base, n) == IF n < base THEN n ELSE base

NumHops(base, n) == IF HopBranch(base, n) THEN n ELSE base

\* mutant of Body: the first counter read is taken before the shuffle
BodyTimedShuffle ==
  << "elems", "alloc", "seed", "fill", "start_tick", "shuffle", "hops",
     "hop_read", "total_ticks", "print" >>

Body ==
  << "elems", "alloc", "seed", "fill", "shuffle", "hops",
     "start_tick", "hop_read", "total_ticks", "print" >>

\* mutant of Swap: the second assignment of the swap is lost
SwapLossy(f, a, b) == [f EXCEPT ![a] = f[b]]

Swap(f, a, b) == [f EXCEPT ![a] = f[b], ![b] = f[a]]

Garbage == 0 .. MaxElems

Line(kind, size) == [kind |-> kind, size |-> size]

NoBuf == [len |-> 0, owner |-> 0, stage |-> "none"]

NoCall == [len |-> 0, owner |-> 0, stage |-> "none", hops |-> 0]

NoItems == [c \in {} |-> 0]

----------------------------------------------------------------------------
(* Spec: main() over the real sweep list.                                  *)

SweepIdle ==
  /\ si = 0 /\ ip = 0 /\ buf = NoBuf /\ call = NoCall /\ taken = FALSE
  /\ trace = << >> /\ out = << >> /\ status = "running"

BufIdle ==
  /\ items = NoItems /\ i = 0 /\ next = 0 /\ result = 0 /\ nreads = 0
  /\ visited = {} /\ oob = FALSE /\ items0 = NoItems /\ result1 = 0
  /\ calls = 0

Init ==
  /\ pc = "header" /\ sz = 0 /\ elems = 0 /\ num_hops = 0
  /\ SweepIdle
  /\ BufIdle

\* lines 90-94: the header row
MainHeader ==
  /\ pc = "header"
  /\ out' = Append(out, Line("header", 0))
  /\ pc' = "separator"
  /\ UNCHANGED <<sz, elems, num_hops, si, ip, buf, call, taken, trace, status, bufVars>>

\* lines 98-105: the dashed separator row
MainSeparator ==
  /\ pc = "separator"
  /\ out' = Append(out, Line("separator", 0))
  /\ pc' = "loop"
  /\ UNCHANGED <<sz, elems, num_hops, si, ip, buf, call, taken, trace, status, bufVars>>

\* line 107: the range-for takes the next entry of sizes
MainNextSize ==
  /\ pc = "loop"
  /\ si < Len(sizes)
  /\ si' = si + 1
  /\ sz' = sizes[si + 1]
  /\ ip' = 1
  /\ trace' = << >>
  /\ taken' = FALSE
  /\ pc' = "body"
  /\ UNCHANGED <<elems, num_hops, buf, call, out, status, bufVars>>

\* lines 107, 145: the range-for is exhausted, main returns 0
MainReturn ==
  /\ pc = "loop"
  /\ ~(si < Len(sizes))
  /\ status' = "0"
  /\ pc' = "exit"
  /\ UNCHANGED <<sz, elems, num_hops, si, ip, buf, call, taken, trace, out, bufVars>>

\* the statement of the loop body that runs next
At(label) == pc = "body" /\ ip <= Len(Body) /\ Body[ip] = label

\* a statement ran: it is logged and control moves to the next one
Ran(label) == trace' = Append(trace, label) /\ ip' = ip + 1 /\ pc' = pc

\* line 110
MainElems ==
  /\ At("elems")
  /\ elems' = ElemCount(sz)
  /\ Ran("elems")
  /\ UNCHANGED <<sz, num_hops, si, buf, call, taken, out, status, bufVars>>

\* line 112: std::vector<size_t> items(elems), the allocation succeeds
MainAlloc ==
  /\ At("alloc")
  /\ buf' = [len |-> elems, owner |-> si, stage |-> "zeroed"]
  /\ Ran("alloc")
  /\ UNCHANGED <<sz, elems, num_hops, si, call, taken, out, status, bufVars>>

\* line 112: the allocation fails; std::bad_alloc is caught nowhere, so
\* std::terminate aborts the process
MainAllocFail ==
  /\ At("alloc")
  /\ status' = "SIGABRT"
  /\ pc' = "abort"
  /\ UNCHANGED <<sz, elems, num_hops, si, ip, buf, call, taken, trace, out, bufVars>>

\* lines 114-117: the seed is read from the clock, the engine is built
MainSeed ==
  /\ At("seed")
  /\ Ran("seed")
  /\ UNCHANGED <<sz, elems, num_hops, si, buf, call, taken, out, status, bufVars>>

\* lines 119-121: every cell is overwritten with its own index
MainFill ==
  /\ At("fill")
  /\ buf' = [buf EXCEPT !.stage = "identity"]
  /\ Ran("fill")
  /\ UNCHANGED <<sz, elems, num_hops, si, call, taken, out, status, bufVars>>

\* line 123: std::shuffle permutes whatever the cells hold
MainShuffle ==
  /\ At("shuffle")
  /\ buf' = [buf EXCEPT !.stage = IF @ = "identity" THEN "shuffled" ELSE @]
  /\ Ran("shuffle")
  /\ UNCHANGED <<sz, elems, num_hops, si, call, taken, out, status, bufVars>>

\* lines 125-128
MainHops ==
  /\ At("hops")
  /\ num_hops' = NumHops(BaseHops, elems)
  /\ taken' = HopBranch(BaseHops, elems)
  /\ Ran("hops")
  /\ UNCHANGED <<sz, elems, si, buf, call, out, status, bufVars>>

\* line 130
MainStartTick ==
  /\ At("start_tick")
  /\ Ran("start_tick")
  /\ UNCHANGED <<sz, elems, num_hops, si, buf, call, taken, out, status, bufVars>>

\* line 131: hop_read is called on a span over the whole vector
MainHopRead ==
  /\ At("hop_read")
  /\ call' = [len |-> buf.len, owner |-> buf.owner, stage |-> buf.stage,
              hops |-> num_hops]
  /\ Ran("hop_read")
  /\ UNCHANGED <<sz, elems, num_hops, si, buf, taken, out, status, bufVars>>

\* lines 132-133
MainTotalTicks ==
  /\ At("total_ticks")
  /\ Ran("total_ticks")
  /\ UNCHANGED <<sz, elems, num_hops, si, buf, call, taken, out, status, bufVars>>

\* lines 136-141: one data row
MainPrint ==
  /\ At("print")
  /\ out' = Append(out, Line("row", sz))
  /\ Ran("print")
  /\ UNCHANGED <<sz, elems, num_hops, si, buf, call, taken, status, bufVars>>

\* line 143: the body's scope ends, the vector is destroyed
MainEndIter ==
  /\ pc = "body"
  /\ ip > Len(Body)
  /\ buf' = NoBuf
  /\ pc' = "loop"
  /\ UNCHANGED <<sz, elems, num_hops, si, ip, call, taken, trace, out, status, bufVars>>

Next ==
  \/ MainHeader \/ MainSeparator \/ MainNextSize \/ MainReturn
  \/ MainElems \/ MainAlloc \/ MainAllocFail \/ MainSeed \/ MainFill
  \/ MainShuffle \/ MainHops \/ MainStartTick \/ MainHopRead
  \/ MainTotalTicks \/ MainPrint \/ MainEndIter

Spec == Init /\ [][Next]_vars /\ WF_vars(Next)

----------------------------------------------------------------------------
(* hop_read, one loop iteration per step (lines 46-57).                    *)

\* mutant of HopLoopCond: one hop too many
HopLoopCondOffByOne == i <= num_hops

\* line 50: the loop condition
HopLoopCond == i < num_hops

\* lines 46-50: the call binds the span to the buffer; next = 0, i = 0
HopCall ==
  /\ pc = "call"
  /\ next' = 0
  /\ i' = 0
  /\ nreads' = 0
  /\ visited' = {}
  /\ items0' = items
  /\ calls' = calls + 1
  /\ pc' = "hop"
  /\ UNCHANGED <<sz, elems, num_hops, sweepVars, items, result, oob, result1>>

\* mutant of HopStep: the cell just read is overwritten
HopStepScribble ==
  /\ pc = "hop"
  /\ HopLoopCond
  /\ next' \in (IF next \in DOMAIN items THEN {items[next]} ELSE Garbage)
  /\ items' = (IF next \in DOMAIN items THEN [items EXCEPT ![next] = 0] ELSE items)
  /\ oob' = (oob \/ next \notin DOMAIN items)
  /\ nreads' = nreads + 1
  /\ visited' = visited \cup {next}
  /\ i' = i + 1
  /\ UNCHANGED <<pc, sz, elems, num_hops, sweepVars, result, items0, result1, calls>>

\* lines 50-53: next = items[next]; i++.  The read is unchecked: an index
\* outside the span is undefined behaviour and may yield any value.
HopStep ==
  /\ pc = "hop"
  /\ HopLoopCond
  /\ next' \in (IF next \in DOMAIN items THEN {items[next]} ELSE Garbage)
  /\ oob' = (oob \/ next \notin DOMAIN items)
  /\ nreads' = nreads + 1
  /\ visited' = visited \cup {next}
  /\ i' = i + 1
  /\ UNCHANGED <<pc, sz, elems, num_hops, sweepVars, items, result, items0, result1, calls>>

\* lines 50, 56: the loop ends, next is returned
HopReturn ==
  /\ pc = "hop"
  /\ ~HopLoopCond
  /\ result' = next
  /\ pc' = "ret"
  /\ UNCHANGED <<sz, elems, num_hops, sweepVars, items, i, next, nreads, visited, oob,
                 items0, result1, calls>>

----------------------------------------------------------------------------
(* SpecBuf: one iteration of main's loop body, the buffer cell by cell.    *)

SmallSizes == { ElemWidth * n : n \in 1 .. MaxElems }

InitBuf ==
  /\ pc = "b_elems" /\ sz \in SmallSizes /\ elems = 0 /\ num_hops = 0
  /\ SweepIdle
  /\ BufIdle

\* line 110
BufElems ==
  /\ pc = "b_elems"
  /\ elems' = ElemCount(sz)
  /\ pc' = "b_alloc"
  /\ UNCHANGED <<sz, num_hops, sweepVars, bufVars>>

\* line 112: the vector's cells are value-initialised to 0
BufAlloc ==
  /\ pc = "b_alloc"
  /\ items' = [c \in 0 .. elems - 1 |-> 0]
  /\ i' = 0
  /\ pc' = "b_fill"
  /\ UNCHANGED <<sz, elems, num_hops, sweepVars, next, result, nreads, visited, oob,
                 items0, result1, calls>>

\* lines 119-121: items[i] = i; i++
BufFillStep ==
  /\ pc = "b_fill"
  /\ i < elems
  /\ items' = [items EXCEPT ![i] = i]
  /\ i' = i + 1
  /\ UNCHANGED <<pc, sz, elems, num_hops, sweepVars, next, result, nreads, visited, oob,
                 items0, result1, calls>>

\* line 119: the fill loop ends; line 123: std::shuffle starts at the last cell
BufFillDone ==
  /\ pc = "b_fill"
  /\ ~(i < elems)
  /\ i' = elems - 1
  /\ pc' = "b_shuffle"
  /\ UNCHANGED <<sz, elems, num_hops, sweepVars, items, next, result, nreads, visited,
                 oob, items0, result1, calls>>

\* line 123: std::shuffle is a Fisher-Yates shuffle: cell i is swapped with a
\* cell j drawn by the generator from 0 .. i (j = i leaves it in place).  The
\* seed is the clock's reading, so every draw is possible.  A library that
\* walks the cells upwards makes the same swaps in another order; the
\* outcomes are the same, every permutation of the cells.
BufShuffleStep ==
  /\ pc = "b_shuffle"
  /\ i >= 1
  /\ \E j \in 0 .. i : items' = Swap(items, i, j)
  /\ i' = i - 1
  /\ UNCHANGED <<pc, sz, elems, num_hops, sweepVars, next, result, nreads, visited, oob,
                 items0, result1, calls>>

\* line 123: std::shuffle returns
BufShuffleDone ==
  /\ pc = "b_shuffle"
  /\ ~(i >= 1)
  /\ pc' = "b_hops"
  /\ UNCHANGED <<sz, elems, num_hops, sweepVars, bufVars>>

\* lines 125-128, with the hop base scaled to ModelHops
BufHops ==
  /\ pc = "b_hops"
  /\ num_hops' = NumHops(ModelHops, elems)
  /\ pc' = "call"
  /\ UNCHANGED <<sz, elems, sweepVars, bufVars>>

NextBuf ==
  \/ BufElems \/ BufAlloc \/ BufFillStep \/ BufFillDone
  \/ BufShuffleStep \/ BufShuffleDone \/ BufHops
  \/ HopCall \/ HopStep \/ HopReturn

SpecBuf == InitBuf /\ [][NextBuf]_vars /\ WF_vars(NextBuf)

----------------------------------------------------------------------------
(* SpecHop: hop_read called twice on the same buffer with the same count.  *)

Perms(n) ==
  { f \in [0 .. n - 1 -> 0 .. n - 1] :
      \A a, b \in 0 .. n - 1 : a # b => f[a] # f[b] }

InitHop ==
  /\ pc = "call"
  /\ \E n \in 1 .. MaxElems :
       /\ elems = n
       /\ sz = n * ElemWidth
       /\ items \in Perms(n)
  /\ num_hops \in 0 .. MaxHops
  /\ SweepIdle
  /\ i = 0 /\ next = 0 /\ result = 0 /\ nreads = 0
  /\ visited = {} /\ oob = FALSE /\ items0 = NoItems /\ result1 = 0
  /\ calls = 0

\* the caller keeps the first result and calls again with the same arguments
HopAgain ==
  /\ pc = "ret"
  /\ calls = 1
  /\ result1' = result
  /\ pc' = "call"
  /\ UNCHANGED <<sz, elems, num_hops, sweepVars, items, i, next, result, nreads, visited,
                 oob, items0, calls>>

NextHop == HopCall \/ HopStep \/ HopReturn \/ HopAgain

SpecHop == InitHop /\ [][NextHop]_vars /\ WF_vars(NextHop)

----------------------------------------------------------------------------
(* Helpers of the properties                                               *)

InTrace(label) == \E k \in 1 .. Len(trace) : trace[k] = label

IsPrefix(s, t) == Len(s) <= Len(t) /\ \A k \in 1 .. Len(s) : s[k] = t[k]

\* the statements executed between the two counter reads
Timed(t) ==
  LET a == CHOOSE k \in 1 .. Len(t) : t[k] = "start_tick"
      b == CHOOSE k \in 1 .. Len(t) : t[k] = "total_ticks"
  IN  SubSeq(t, a + 1, b - 1)

\* the output after the data rows of the first k sizes 2^10, 2^11, ...
ExpectedOut(k) ==
  << [kind |-> "header", size |-> 0], [kind |-> "separator", size |-> 0] >>
    \o [j \in 1 .. k |-> [kind |-> "row", size |-> 2^(9 + j)]]

IsPermutation(f, n) ==
  /\ DOMAIN f = 0 .. n - 1
  /\ \A c \in DOMAIN f : f[c] \in 0 .. n - 1
  /\ \A v \in 0 .. n - 1 : Cardinality({ c \in DOMAIN f : f[c] = v }) = 1

RECURSIVE Walk(_, _, _)
Walk(f, cur, seen) ==
  IF cur \in seen \/ cur \notin DOMAIN f THEN seen
  ELSE Walk(f, f[cur], seen \cup {cur})

\* the cells on the cycle through cell 0
Orbit(f) == Walk(f, 0, {})

Built == pc \in {"b_hops", "call", "hop", "ret"}

----------------------------------------------------------------------------
(* Properties                                                              *)

\* C1: once main has filled and shuffled the buffer, following next pointers
\* from cell 0 visits exactly elems distinct cells before cell 0 recurs.
C1_SingleCycle == Built => Cardinality(Orbit(items)) = elems

\* C2: during and after the shuffle the buffer is a permutation of
\* 0 .. elems-1: every value appears in exactly one cell, none is >= elems.
C2_Permutation ==
  (pc = "b_shuffle" \/ Built) =>
    IsPermutation(items, elems) /\ elems * 8 = sz

C2_Witness ==
  /\ pc = "b_hops" /\ elems >= 3
  /\ items[0] # 0 /\ items[1] # 1 /\ items[2] = 2

\* C3: when hop_read returns to main, after num_hops >= elems hops from cell
\* 0, every cell of the buffer has been read at least once.
C3_EveryCellRead ==
  pc = "ret" => (num_hops >= elems /\ visited = 0 .. elems - 1)

\* C4: the hop count passed to hop_read is max(100,000,000, elems), and so
\* is at least elems.
C4_HopCount ==
  InTrace("hop_read") =>
    /\ call.hops = (IF elems > 100000000 THEN elems ELSE 100000000)
    /\ call.hops >= elems
    /\ call.len = elems

C4_Witness == InTrace("hop_read") /\ sz = 2^28 /\ call.hops = 100000000

\* C5: on a permutation of 0 .. elems-1, elems >= 1, hop_read makes exactly
\* num_hops reads, each at an index inside the buffer, returns a value in
\* 0 .. elems-1 (0 without reading when num_hops = 0), and every call returns.
C5_Inv ==
  /\ IsPermutation(items, elems) /\ elems >= 1
  /\ ~oob
  /\ visited \subseteq 0 .. elems - 1
  /\ pc = "hop" => (nreads = i /\ i <= num_hops /\ next \in 0 .. elems - 1)
  /\ pc = "ret" =>
       /\ nreads = num_hops
       /\ result \in 0 .. elems - 1
       /\ num_hops = 0 => (result = 0 /\ visited = {})

\* C5: the safety part above holds in every state, and both calls of
\* hop_read return (it terminates after num_hops reads).
C5_HopReadSafe == []C5_Inv /\ <>(pc = "ret" /\ calls = 2)

C5_Witness ==
  /\ pc = "ret" /\ elems >= 3 /\ num_hops >= 4
  /\ nreads = num_hops /\ result # 0 /\ Cardinality(visited) >= 3

\* C6: hop_read leaves the buffer as it found it, and a second call with the
\* same buffer and hop count returns what the first call returned.
C6_Deterministic ==
  /\ pc \in {"hop", "ret"} => items = items0
  /\ (pc = "ret" /\ calls = 2) => result = result1

C6_Witness ==
  /\ pc = "ret" /\ calls = 2 /\ num_hops >= 2
  /\ result = result1 /\ result # 0 /\ items = items0

\* C7 as stated: however the process ends, it has printed the header, the
\* separator and one row for each of the 19 sizes, and its status is 0.
C7_AlwaysCompletes ==
  pc \in {"exit", "abort"} => (status = "0" /\ out = ExpectedOut(19))

\* C7 as amended: the output is always the header, the separator and the
\* rows of the sizes 2^10, 2^11, ... processed so far, in that order; main
\* returns 0 only after the row of 2^28; the process ends otherwise only by
\* a failed allocation, before the row of the size being processed; and the
\* process always ends.
C7_Inv ==
  /\ si \in 0 .. 19
  /\ pc \in {"body", "abort"} => sz = 2^(9 + si)
  /\ pc = "header" => out = << >>
  /\ pc = "separator" => out = SubSeq(ExpectedOut(0), 1, 1)
  /\ pc = "loop" => out = ExpectedOut(si)
  /\ pc = "body" => out = ExpectedOut(IF InTrace("print") THEN si ELSE si - 1)
  /\ pc = "exit" => (status = "0" /\ si = 19 /\ out = ExpectedOut(19))
  /\ pc = "abort" =>
       (status = "SIGABRT" /\ out = ExpectedOut(si - 1) /\ ~InTrace("alloc"))
  /\ pc \notin {"exit", "abort"} => status = "running"

\* C7 as amended: the above holds in every state, and the process ends: by
\* returning 0 after all 19 rows, or by a failed allocation.
C7_CompletesUnlessAllocFails == []C7_Inv /\ <>(pc \in {"exit", "abort"})

C7_Witness == pc = "exit" /\ status = "0" /\ Len(out) = 21 /\ out[21].size = 268435456

\* C8: the element count is exact: elems * 8 = sz with elems >= 1, and
\* sz = 1024 gives elems = 128.
C8_ExactElemCount ==
  InTrace("elems") =>
    /\ elems * 8 = sz
    /\ sz % 8 = 0
    /\ elems >= 1
    /\ sz = 1024 => elems = 128

C8_Witness == InTrace("elems") /\ sz = 1024 /\ elems = 128

\* C9: the statements of an iteration run in the order elems, alloc, seed,
\* fill, shuffle, hops, first counter read, hop_read, second counter read,
\* print; only hop_read runs between the two counter reads; and hop_read is
\* given the shuffled buffer of this iteration, all elems cells of it.
C9_Order ==
  /\ pc \in {"body", "abort"} \/ (pc = "loop" /\ si >= 1) =>
       IsPrefix(trace, << "elems", "alloc", "seed", "fill", "shuffle", "hops",
                          "start_tick", "hop_read", "total_ticks", "print" >>)
  /\ InTrace("total_ticks") => Timed(trace) = << "hop_read" >>
  /\ InTrace("hop_read") =>
       call = [len |-> sz \div 8, owner |-> si, stage |-> "shuffled",
               hops |-> num_hops]
  /\ (pc = "loop" /\ si >= 1) => Len(trace) = 10

C9_Witness ==
  /\ pc = "loop" /\ si = 19 /\ Len(trace) = 10
  /\ call.len = 33554432 /\ call.owner = 19

\* C10: for the fixed sweep list elems never exceeds 100,000,000 (at most
\* 33,554,432), the branch elems > num_hops is never taken, the hop count is
\* exactly 100,000,000, and that is at least twice the buffer's length.
C10_BranchNeverTaken ==
  /\ ~taken
  /\ InTrace("elems") => elems <= 33554432
  /\ InTrace("hops") =>
       /\ num_hops = 100000000
       /\ num_hops >= 2 * elems

C10_Witness ==
  /\ InTrace("hops") /\ elems = 33554432 /\ num_hops = 100000000 /\ ~taken

====
